---- MODULE Spec2Model ----
(***************************************************************************)
(* Model of gusc::Threads::Thread ("Worker") and gusc::Threads::ThisThread *)
(* ("CallerAdapter") of include/Threads/Thread.hpp.                        *)
(*                                                                         *)
(* One unit is modelled.  `kind` says which class it is.  Client threads   *)
(* call start / stop / send / sendDelayed / sendAsync / sendSync on it;    *)
(* the run loop runs on a spawned thread (Thread) or on the client that    *)
(* called start() (ThisThread).  Every read or write of shared state that  *)
(* the code performs outside messageMutex is a step of its own; a section  *)
(* executed while holding messageMutex is one step, except runLeftovers,   *)
(* which holds the mutex across the message calls.                         *)
(***************************************************************************)
EXTENDS Integers, Sequences, FiniteSets, TLC

\* ------------------------------------------------------------- bounds
MaxMsgs == 2
MaxTime == 1

\* the timeouts passed to sendDelayed: none, and one tick of the clock
Timeouts == {0, 1}

\* ------------------------------------------------------------ threads
Clients == {"c1", "c2"}
\* the thread that constructed the unit and controls its lifecycle
Owner == "c1"
\* the threads that send messages to the unit
Producers == Clients \ {Owner}
Spawned == {"w1", "w2"}
Threads == Clients \cup Spawned
NoThread == "none"

VARIABLES
    kind,                 \* "Thread" or "ThisThread"
    isRunning,            \* std::atomic<bool> isRunning
    isAcceptingMessages,  \* std::atomic<bool> isAcceptingMessages
    thread,               \* std::unique_ptr<std::thread> thread (NoThread = null)
    messageQueue,         \* std::queue<unique_ptr<Message>>: sequence of message ids
    delayedQueue,         \* std::map<time_point, unique_ptr<Message>>: sequence of
                          \* [time, msg] sorted by time, keys unique
    messageMutex,         \* holder of messageMutex, or NoThread
    waiting,              \* threads blocked in queueWait.wait / wait_until
    now,                  \* std::chrono::steady_clock
    pc,                   \* each thread's position
    timeNow,              \* runLoop's local timeNow, per loop thread
    next,                 \* runLoop's local next (0 = empty unique_ptr)
    until,                \* deadline handed to wait_until
    sending,              \* per thread: ids of the send operations in progress
    executing,            \* per thread: stack of [msg, ret] frames of Message::call
    msgs,                 \* one record per send-type call (history of the calls)
    promise,              \* per message: value set in its std::promise (0 = not set)
    setCount,             \* per message: number of set_value calls on its promise
    loopThreads,          \* threads that have entered runLoop
    startCalled,          \* start() has been called
    stopInvoked,          \* stop() has been called
    stopReturned,         \* a stop() call has returned normally
    queuedAtStop,         \* Len(messageQueue) when stop() first cleared isRunning
    handle                \* start(): the std::thread just constructed, per caller

vars == <<kind, isRunning, isAcceptingMessages, thread, messageQueue, delayedQueue,
          messageMutex, waiting, now, pc, timeNow, next, until, sending, executing,
          msgs, promise, setCount, loopThreads, startCalled, stopInvoked,
          stopReturned, queuedAtStop, handle>>

\* ------------------------------------------------------------ helpers
Ids == 1..Len(msgs)

Range(s) == {s[i] : i \in 1..Len(s)}

Last(s) == s[Len(s)]

Front(s) == SubSeq(s, 1, Len(s) - 1)

Cur(t) == Last(sending[t])

HasPromise(m) == msgs[m].op \in {"sendAsync", "sendSync"}

\* the value the callable of message m produces
Val(m) == 40 + m

\* the unit has been started: start() has stored the std::thread (Thread), or a
\* thread has entered start() and runs the loop (ThisThread)
Started == IF kind = "Thread" THEN thread # NoThread ELSE loopThreads # {}

\* Thread::getId
getId(t) == IF thread # NoThread THEN thread ELSE t

\* a getIsSameThread that never recognises the unit's own thread
NeverSameThread(t) == FALSE

\* Thread::getIsSameThread, evaluated by thread t
getIsSameThread(t) == getId(t) = t

\* queueWait.notify_one(): the sets of waiters after the call
NotifyOne(w) == IF w = {} THEN {{}} ELSE {w \ {x} : x \in w}

\* a queue that puts the new message first
EnqueueFront(q, m) == <<m>> \o q

\* std::queue::emplace
Enqueue(q, m) == Append(q, m)

\* std::map::emplace(time, m): no insertion when the key is already present
RECURSIVE MapEmplace(_, _, _)
MapEmplace(dq, time, m) ==
    IF dq = <<>> THEN <<[time |-> time, msg |-> m]>>
    ELSE IF Head(dq).time = time THEN dq
    ELSE IF Head(dq).time > time THEN <<[time |-> time, msg |-> m]>> \o dq
    ELSE <<Head(dq)>> \o MapEmplace(Tail(dq), time, m)

\* the for loop of runLoop: entries moved to messageQueue, from begin() up to the
\* first entry that is not before timeNow
RECURSIVE DuePrefix(_, _)
DuePrefix(dq, tn) ==
    IF dq # <<>> /\ Head(dq).time < tn
    THEN <<Head(dq).msg>> \o DuePrefix(Tail(dq), tn)
    ELSE <<>>

\* std::map::lower_bound(tn): entries with key >= tn
RECURSIVE LowerBound(_, _)
LowerBound(dq, tn) ==
    IF dq = <<>> THEN <<>>
    ELSE IF Head(dq).time >= tn THEN dq
    ELSE LowerBound(Tail(dq), tn)

\* ---------------------------------------------------------------- Init
Init ==
    /\ kind \in {"Thread", "ThisThread"}
    /\ isRunning = (kind = "ThisThread")
    /\ isAcceptingMessages = TRUE
    /\ thread = NoThread
    /\ messageQueue = <<>>
    /\ delayedQueue = <<>>
    /\ messageMutex = NoThread
    /\ waiting = {}
    /\ now = 0
    /\ pc = [t \in Threads |-> IF t \in Clients THEN "idle" ELSE "unborn"]
    /\ timeNow = [t \in Threads |-> 0]
    /\ next = [t \in Threads |-> 0]
    /\ until = [t \in Threads |-> 0]
    /\ sending = [t \in Threads |-> <<>>]
    /\ executing = [t \in Threads |-> <<>>]
    /\ msgs = <<>>
    /\ promise = <<>>
    /\ setCount = <<>>
    /\ loopThreads = {}
    /\ startCalled = FALSE
    /\ stopInvoked = FALSE
    /\ stopReturned = FALSE
    /\ queuedAtStop = 0
    /\ handle = [t \in Threads |-> NoThread]

\* ------------------------------------------- bookkeeping of the calls
\* the thread runs a message from inside runLoop / runLeftovers
InLoop(t) == executing[t] # <<>> /\ executing[t][1].ret \in {"L_check", "L_drainpop"}

\* record of a send-type call made by t now, with result r:
\*   nested, inLoop   the call is made by a callable; by a callable run by the loop
\*   foreign          the caller never ran the loop
\*   started          the unit was started when the call was made
\*   running          the value of isRunning when the call was made
\*   preStop          (send) the call returned before stop() was first called
\*   afterStop        the call was made after a stop() call had returned
\*   time             (sendDelayed) the deadline computed
\*   res, got         the result of the call and the value sendSync returned
\*   execs, done, on  call() began so many times; has returned; on which thread
\*   fifo             when call() began, every send() that had returned before
\*                    this send() was called had been run to its end
Record(t, op, r) ==
    [op |-> op, by |-> t, nested |-> executing[t] # <<>>, inLoop |-> InLoop(t),
     foreign |-> (t \notin loopThreads), started |-> Started, running |-> isRunning,
     preStop |-> FALSE, afterStop |-> stopReturned, time |-> -1, res |-> r, got |-> 0,
     execs |-> 0, done |-> FALSE, on |-> NoThread, fifo |-> TRUE]

\* the send() calls that had returned normally before send() call b was made: the
\* earlier accepted calls of the same thread
Pred(b) == {a \in 1..(b - 1) : msgs[a].op = "send" /\ msgs[b].op = "send" /\
                               msgs[a].by = msgs[b].by /\ msgs[a].res = "ok"}

\* a send-type call begins and goes on at position p
Call(t, op, p) ==
    /\ Len(msgs) < MaxMsgs
    /\ msgs' = Append(msgs, Record(t, op, "pending"))
    /\ promise' = Append(promise, 0)
    /\ setCount' = Append(setCount, 0)
    /\ sending' = [sending EXCEPT ![t] = Append(@, Len(msgs) + 1)]
    /\ pc' = [pc EXCEPT ![t] = p]

\* a send-type call throws at its first check: nothing but the throw happens
Throw(t, op, r) ==
    /\ Len(msgs) < MaxMsgs
    /\ msgs' = Append(msgs, Record(t, op, r))
    /\ promise' = Append(promise, 0)
    /\ setCount' = Append(setCount, 0)
    /\ UNCHANGED <<sending, pc>>

\* the call in progress on t ends with result r (and value v)
Return(t, r, v) ==
    /\ msgs' = [msgs EXCEPT ![Cur(t)].res = r, ![Cur(t)].got = v,
                            ![Cur(t)].preStop = (msgs[Cur(t)].op = "send" /\ ~stopInvoked)]
    /\ sending' = [sending EXCEPT ![t] = Front(@)]
    /\ pc' = [pc EXCEPT ![t] = IF executing[t] # <<>> THEN "body" ELSE "idle"]

\* a thread may call sendAsync / sendSync: a producer between calls, or any thread
\* from inside the callable it is executing
CanCall(t) == (t \in Producers /\ pc[t] = "idle") \/ pc[t] = "body"

\* --------------------------------------------------------------- send
\* a send() without the getIsAcceptingMessages check
SendUnchecked(t) ==
    /\ pc[t] = "idle"
    /\ Call(t, "send", "send_enq")
    /\ UNCHANGED <<kind, isRunning, isAcceptingMessages, thread, messageQueue,
                   delayedQueue, messageMutex, waiting, now, timeNow, next, until,
                   executing, loopThreads, startCalled, stopInvoked, stopReturned,
                   queuedAtStop, handle>>

\* send, line 90: the getIsAcceptingMessages check
Send(t) ==
    /\ pc[t] = "idle"
    /\ IF isAcceptingMessages
       THEN Call(t, "send", "send_enq")
       ELSE Throw(t, "send", "NotAccepting")
    /\ UNCHANGED <<kind, isRunning, isAcceptingMessages, thread, messageQueue,
                   delayedQueue, messageMutex, waiting, now, timeNow, next, until,
                   executing, loopThreads, startCalled, stopInvoked, stopReturned,
                   queuedAtStop, handle>>

\* send, lines 92-94: lock, emplace, notify_one
SendEnqueue(t) ==
    /\ pc[t] = "send_enq"
    /\ messageMutex = NoThread
    /\ messageQueue' = Enqueue(messageQueue, Cur(t))
    /\ waiting' \in NotifyOne(waiting)
    /\ Return(t, "ok", 0)
    /\ UNCHANGED <<kind, isRunning, isAcceptingMessages, thread, delayedQueue,
                   messageMutex, now, timeNow, next, until, executing, promise,
                   setCount, loopThreads, startCalled, stopInvoked, stopReturned,
                   queuedAtStop, handle>>

\* -------------------------------------------------------- sendDelayed
\* sendDelayed, line 107: the getIsAcceptingMessages check
SendDelayed(t) ==
    /\ pc[t] = "idle"
    /\ IF isAcceptingMessages
       THEN Call(t, "sendDelayed", "delayed_enq")
       ELSE Throw(t, "sendDelayed", "NotAccepting")
    /\ UNCHANGED <<kind, isRunning, isAcceptingMessages, thread, messageQueue,
                   delayedQueue, messageMutex, waiting, now, timeNow, next, until,
                   executing, loopThreads, startCalled, stopInvoked, stopReturned,
                   queuedAtStop, handle>>

\* sendDelayed, lines 109-112: lock, time = now() + timeout, emplace, notify_one
SendDelayedEnqueue(t, timeout) ==
    /\ pc[t] = "delayed_enq"
    /\ messageMutex = NoThread
    /\ delayedQueue' = MapEmplace(delayedQueue, now + timeout, Cur(t))
    /\ waiting' \in NotifyOne(waiting)
    /\ msgs' = [msgs EXCEPT ![Cur(t)].res = "ok", ![Cur(t)].time = now + timeout]
    /\ sending' = [sending EXCEPT ![t] = Front(@)]
    /\ pc' = [pc EXCEPT ![t] = "idle"]
    /\ UNCHANGED <<kind, isRunning, isAcceptingMessages, thread, messageQueue,
                   messageMutex, now, timeNow, next, until, executing, promise,
                   setCount, loopThreads, startCalled, stopInvoked, stopReturned,
                   queuedAtStop, handle>>

\* ---------------------------------------------------------- sendAsync
\* sendAsync, line 126: the getIsAcceptingMessages check
SendAsync(t) ==
    /\ CanCall(t)
    /\ IF isAcceptingMessages
       THEN Call(t, "sendAsync", "async_same")
       ELSE Throw(t, "sendAsync", "NotAccepting")
    /\ UNCHANGED <<kind, isRunning, isAcceptingMessages, thread, messageQueue,
                   delayedQueue, messageMutex, waiting, now, timeNow, next, until,
                   executing, loopThreads, startCalled, stopInvoked, stopReturned,
                   queuedAtStop, handle>>

\* a sendSync without the getIsRunning check
SendSyncUnchecked(t) ==
    /\ CanCall(t)
    /\ Call(t, "sendSync", "async_check")
    /\ UNCHANGED <<kind, isRunning, isAcceptingMessages, thread, messageQueue,
                   delayedQueue, messageMutex, waiting, now, timeNow, next, until,
                   executing, loopThreads, startCalled, stopInvoked, stopReturned,
                   queuedAtStop, handle>>

\* sendSync, line 156: the getIsRunning check
SendSync(t) ==
    /\ CanCall(t)
    /\ IF isRunning
       THEN Call(t, "sendSync", "async_check")
       ELSE Throw(t, "sendSync", "NotStarted")
    /\ UNCHANGED <<kind, isRunning, isAcceptingMessages, thread, messageQueue,
                   delayedQueue, messageMutex, waiting, now, timeNow, next, until,
                   executing, loopThreads, startCalled, stopInvoked, stopReturned,
                   queuedAtStop, handle>>

\* sendSync, line 160: sendAsync's getIsAcceptingMessages check (line 126)
SendSyncAccepting(t) ==
    /\ pc[t] = "async_check"
    /\ IF isAcceptingMessages
       THEN /\ pc' = [pc EXCEPT ![t] = "async_same"]
            /\ UNCHANGED <<msgs, sending>>
       ELSE Return(t, "NotAccepting", 0)
    /\ UNCHANGED <<kind, isRunning, isAcceptingMessages, thread, messageQueue,
                   delayedQueue, messageMutex, waiting, now, timeNow, next, until,
                   executing, promise, setCount, loopThreads, startCalled,
                   stopInvoked, stopReturned, queuedAtStop, handle>>

\* Message::call begins on thread t for message m; control goes to ret afterwards
BeginCall(t, m, ret) ==
    /\ executing' = [executing EXCEPT ![t] = Append(@, [msg |-> m, ret |-> ret])]
    /\ msgs' = [msgs EXCEPT ![m].execs = @ + 1, ![m].on = t,
                            ![m].fifo = \A a \in Pred(m) : msgs[a].done]
    /\ pc' = [pc EXCEPT ![t] = "body"]

\* sendAsync, lines 130-135: same thread, the message is called in place
SendAsyncInPlace(t) ==
    /\ pc[t] = "async_same"
    /\ getIsSameThread(t)
    /\ BeginCall(t, Cur(t), "async_ret")
    /\ UNCHANGED <<kind, isRunning, isAcceptingMessages, thread, messageQueue,
                   delayedQueue, messageMutex, waiting, now, timeNow, next, until,
                   sending, promise, setCount, loopThreads, startCalled,
                   stopInvoked, stopReturned, queuedAtStop, handle>>

\* sendAsync, lines 136-141: another thread, lock, emplace, notify_one
SendAsyncEnqueue(t) ==
    /\ pc[t] = "async_same"
    /\ ~getIsSameThread(t)
    /\ messageMutex = NoThread
    /\ messageQueue' = Enqueue(messageQueue, Cur(t))
    /\ waiting' \in NotifyOne(waiting)
    /\ pc' = [pc EXCEPT ![t] = "async_ret"]
    /\ UNCHANGED <<kind, isRunning, isAcceptingMessages, thread, delayedQueue,
                   messageMutex, now, timeNow, next, until, sending, executing, msgs,
                   promise, setCount, loopThreads, startCalled, stopInvoked,
                   stopReturned, queuedAtStop, handle>>

\* sendAsync, line 142: return future (the call was sendAsync)
SendAsyncReturn(t) ==
    /\ pc[t] = "async_ret"
    /\ msgs[Cur(t)].op = "sendAsync"
    /\ Return(t, "ok", 0)
    /\ UNCHANGED <<kind, isRunning, isAcceptingMessages, thread, messageQueue,
                   delayedQueue, messageMutex, waiting, now, timeNow, next, until,
                   executing, promise, setCount, loopThreads, startCalled,
                   stopInvoked, stopReturned, queuedAtStop, handle>>

\* sendSync, line 161: future.get() blocks until the promise holds a value
FutureGet(t) ==
    /\ pc[t] = "async_ret"
    /\ msgs[Cur(t)].op = "sendSync"
    /\ promise[Cur(t)] # 0
    /\ Return(t, "ok", promise[Cur(t)])
    /\ UNCHANGED <<kind, isRunning, isAcceptingMessages, thread, messageQueue,
                   delayedQueue, messageMutex, waiting, now, timeNow, next, until,
                   executing, promise, setCount, loopThreads, startCalled,
                   stopInvoked, stopReturned, queuedAtStop, handle>>

\* Message::call returns: the callable has run; a message with a promise sets it
\* (CallableMessageWithPromise::actualCall), and control returns to the caller
EndCall(t) ==
    /\ pc[t] = "body"
    /\ LET f == Last(executing[t]) IN
       /\ executing' = [executing EXCEPT ![t] = Front(@)]
       /\ msgs' = [msgs EXCEPT ![f.msg].done = TRUE]
       /\ promise' = IF HasPromise(f.msg)
                     THEN [promise EXCEPT ![f.msg] = Val(f.msg)] ELSE promise
       /\ setCount' = IF HasPromise(f.msg)
                      THEN [setCount EXCEPT ![f.msg] = @ + 1] ELSE setCount
       /\ pc' = [pc EXCEPT ![t] = f.ret]
    /\ UNCHANGED <<kind, isRunning, isAcceptingMessages, thread, messageQueue,
                   delayedQueue, messageMutex, waiting, now, timeNow, next, until,
                   sending, loopThreads, startCalled, stopInvoked, stopReturned,
                   queuedAtStop, handle>>

\* ------------------------------------------------------ Thread::start
\* start, line 49: the getIsRunning check; line 56: throw "already started"
StartCheck(t) ==
    /\ kind = "Thread"
    /\ pc[t] = "idle"
    /\ startCalled' = TRUE
    /\ pc' = [pc EXCEPT ![t] = IF ~isRunning THEN "start_set" ELSE "idle"]
    /\ UNCHANGED <<kind, isRunning, isAcceptingMessages, thread, messageQueue,
                   delayedQueue, messageMutex, waiting, now, timeNow, next, until,
                   sending, executing, msgs, promise, setCount, loopThreads,
                   stopInvoked, stopReturned, queuedAtStop, handle>>

\* start, line 51: setIsRunning(true)
StartSetRunning(t) ==
    /\ pc[t] = "start_set"
    /\ isRunning' = TRUE
    /\ pc' = [pc EXCEPT ![t] = "start_thread"]
    /\ UNCHANGED <<kind, isAcceptingMessages, thread, messageQueue, delayedQueue,
                   messageMutex, waiting, now, timeNow, next, until, sending,
                   executing, msgs, promise, setCount, loopThreads, startCalled,
                   stopInvoked, stopReturned, queuedAtStop, handle>>

\* the std::thread that the next std::thread constructor creates
NewThread == IF pc["w1"] = "unborn" THEN "w1" ELSE "w2"

\* start, line 52, right-hand side: std::make_unique<std::thread>(&runLoop, this)
\* creates a thread that begins runLoop
StartThread(t) ==
    /\ pc[t] = "start_thread"
    /\ \E w \in Spawned : pc[w] = "unborn"
    /\ handle' = [handle EXCEPT ![t] = NewThread]
    /\ loopThreads' = loopThreads \cup {NewThread}
    /\ pc' = [pc EXCEPT ![t] = "start_assign", ![NewThread] = "L_check"]
    /\ UNCHANGED <<kind, isRunning, isAcceptingMessages, thread, messageQueue,
                   delayedQueue, messageMutex, waiting, now, timeNow, next, until,
                   sending, executing, msgs, promise, setCount, startCalled,
                   stopInvoked, stopReturned, queuedAtStop>>

\* start, line 52, the assignment to `thread`: the std::thread held before is
\* destroyed; it is joinable (nothing joins or detaches it), so its destructor
\* calls std::terminate and the process ends
StartAssign(t) ==
    /\ pc[t] = "start_assign"
    /\ thread' = handle[t]
    /\ handle' = [handle EXCEPT ![t] = NoThread]
    /\ pc' = IF thread # NoThread
             THEN [x \in Threads |-> "aborted"]
             ELSE [pc EXCEPT ![t] = "idle"]
    /\ UNCHANGED <<kind, isRunning, isAcceptingMessages, messageQueue, delayedQueue,
                   messageMutex, waiting, now, timeNow, next, until, sending,
                   executing, msgs, promise, setCount, loopThreads, startCalled,
                   stopInvoked, stopReturned, queuedAtStop>>

\* -------------------------------------------------- ThisThread::start
\* ThisThread::start, line 378: runLoop() on the calling thread
StartThisThread(t) ==
    /\ kind = "ThisThread"
    /\ pc[t] = "idle"
    /\ startCalled' = TRUE
    /\ loopThreads' = loopThreads \cup {t}
    /\ pc' = [pc EXCEPT ![t] = "L_check"]
    /\ UNCHANGED <<kind, isRunning, isAcceptingMessages, thread, messageQueue,
                   delayedQueue, messageMutex, waiting, now, timeNow, next, until,
                   sending, executing, msgs, promise, setCount, stopInvoked,
                   stopReturned, queuedAtStop, handle>>

\* ------------------------------------------------------- Thread::stop
\* stop, lines 64-66: if (thread) setIsAcceptingMessages(false); line 72: throw
\* "has not been started"
StopCheck(t) ==
    /\ kind = "Thread"
    /\ pc[t] = "idle"
    /\ stopInvoked' = TRUE
    /\ isAcceptingMessages' = IF thread # NoThread THEN FALSE ELSE isAcceptingMessages
    /\ pc' = [pc EXCEPT ![t] = IF thread # NoThread THEN "stop_run" ELSE "idle"]
    /\ UNCHANGED <<kind, isRunning, thread, messageQueue, delayedQueue, messageMutex,
                   waiting, now, timeNow, next, until, sending, executing, msgs,
                   promise, setCount, loopThreads, startCalled, stopReturned,
                   queuedAtStop, handle>>

\* stop, line 67: setIsRunning(false)
StopRunning(t) ==
    /\ pc[t] = "stop_run"
    /\ isRunning' = FALSE
    /\ queuedAtStop' = IF isRunning THEN Len(messageQueue) ELSE queuedAtStop
    /\ pc' = [pc EXCEPT ![t] = "stop_notify"]
    /\ UNCHANGED <<kind, isAcceptingMessages, thread, messageQueue, delayedQueue,
                   messageMutex, waiting, now, timeNow, next, until, sending,
                   executing, msgs, promise, setCount, loopThreads, startCalled,
                   stopInvoked, stopReturned, handle>>

\* stop, line 68: queueWait.notify_one(), and stop returns
StopNotify(t) ==
    /\ pc[t] = "stop_notify"
    /\ waiting' \in NotifyOne(waiting)
    /\ stopReturned' = TRUE
    /\ pc' = [pc EXCEPT ![t] = "idle"]
    /\ UNCHANGED <<kind, isRunning, isAcceptingMessages, thread, messageQueue,
                   delayedQueue, messageMutex, now, timeNow, next, until, sending,
                   executing, msgs, promise, setCount, loopThreads, startCalled,
                   stopInvoked, queuedAtStop, handle>>

\* --------------------------------------------------- ThisThread::stop
\* ThisThread::stop, line 385: setIsAcceptingMessages(false)
StopThisThread(t) ==
    /\ kind = "ThisThread"
    /\ pc[t] = "idle"
    /\ stopInvoked' = TRUE
    /\ isAcceptingMessages' = FALSE
    /\ pc' = [pc EXCEPT ![t] = "stop_this_run"]
    /\ UNCHANGED <<kind, isRunning, thread, messageQueue, delayedQueue, messageMutex,
                   waiting, now, timeNow, next, until, sending, executing, msgs,
                   promise, setCount, loopThreads, startCalled, stopReturned,
                   queuedAtStop, handle>>

\* ThisThread::stop, line 386: setIsRunning(false), and stop returns
StopThisThreadRunning(t) ==
    /\ pc[t] = "stop_this_run"
    /\ isRunning' = FALSE
    /\ queuedAtStop' = IF isRunning THEN Len(messageQueue) ELSE queuedAtStop
    /\ stopReturned' = TRUE
    /\ pc' = [pc EXCEPT ![t] = "idle"]
    /\ UNCHANGED <<kind, isAcceptingMessages, thread, messageQueue, delayedQueue,
                   messageMutex, waiting, now, timeNow, next, until, sending,
                   executing, msgs, promise, setCount, loopThreads, startCalled,
                   stopInvoked, handle>>

\* ------------------------------------------------------------ runLoop
\* runLoop, lines 192-196: while (getIsRunning()), then timeNow = now(), both
\* before the lock is taken; line 244 when the unit is not running
LoopCheck(t) ==
    /\ pc[t] = "L_check"
    /\ pc' = [pc EXCEPT ![t] = IF isRunning THEN "L_lock" ELSE "L_left"]
    /\ timeNow' = [timeNow EXCEPT ![t] = IF isRunning THEN now ELSE @]
    /\ UNCHANGED <<kind, isRunning, isAcceptingMessages, thread, messageQueue,
                   delayedQueue, messageMutex, waiting, now, next, until, sending,
                   executing, msgs, promise, setCount, loopThreads, startCalled,
                   stopInvoked, stopReturned, queuedAtStop, handle>>

\* runLoop, lines 232-237: take the front of messageQueue (dq is what the
\* promotion left of delayedQueue) and release the lock at the end of the block
PopNext(t, mq, dq) ==
    /\ next' = [next EXCEPT ![t] = IF mq # <<>> THEN Head(mq) ELSE 0]
    /\ messageQueue' = IF mq # <<>> THEN Tail(mq) ELSE mq
    /\ delayedQueue' = dq
    /\ pc' = [pc EXCEPT ![t] = IF mq # <<>> THEN "L_call" ELSE "L_check"]

\* runLoop, lines 205-230: move the due delayed messages to messageQueue; when
\* there are delayed messages and none was moved, wait_until the next deadline
\* (the lock is released while waiting); otherwise go on to lines 232-237
Promote(t) ==
    LET due == DuePrefix(delayedQueue, timeNow[t])
        rest == SubSeq(delayedQueue, Len(due) + 1, Len(delayedQueue))
        hasNew == due # <<>>
        nextTime == LowerBound(rest, timeNow[t])
    IN  IF delayedQueue # <<>> /\ ~hasNew /\ nextTime # <<>>
        THEN /\ until' = [until EXCEPT ![t] = Head(nextTime).time]
             /\ waiting' = waiting \cup {t}
             /\ pc' = [pc EXCEPT ![t] = "L_twait"]
             /\ UNCHANGED <<messageQueue, delayedQueue, next>>
        ELSE /\ PopNext(t, messageQueue \o due, rest)
             /\ UNCHANGED <<until, waiting>>

\* runLoop, lines 197-203: lock; with both queues empty, queueWait.wait(lock);
\* otherwise the rest of the locked block
LoopLock(t) ==
    /\ pc[t] = "L_lock"
    /\ messageMutex = NoThread
    /\ IF messageQueue = <<>> /\ delayedQueue = <<>>
       THEN /\ waiting' = waiting \cup {t}
            /\ pc' = [pc EXCEPT ![t] = "L_wait"]
            /\ UNCHANGED <<messageQueue, delayedQueue, next, until>>
       ELSE Promote(t)
    /\ UNCHANGED <<kind, isRunning, isAcceptingMessages, thread, messageMutex, now,
                   timeNow, sending, executing, msgs, promise, setCount,
                   loopThreads, startCalled, stopInvoked, stopReturned, queuedAtStop,
                   handle>>

\* runLoop, line 202: queueWait.wait returns (notified or woken spuriously, the
\* lock taken again), and the rest of the locked block runs
LoopWake(t) ==
    /\ pc[t] = "L_wait"
    /\ t \notin waiting
    /\ messageMutex = NoThread
    /\ Promote(t)
    /\ UNCHANGED <<kind, isRunning, isAcceptingMessages, thread, messageMutex, now,
                   timeNow, sending, executing, msgs, promise, setCount,
                   loopThreads, startCalled, stopInvoked, stopReturned, queuedAtStop,
                   handle>>

\* runLoop, line 227: queueWait.wait_until returns (notified, woken spuriously or
\* the deadline reached), and lines 232-237 run
LoopTimedWake(t) ==
    /\ pc[t] = "L_twait"
    /\ t \notin waiting \/ now >= until[t]
    /\ messageMutex = NoThread
    /\ waiting' = waiting \ {t}
    /\ PopNext(t, messageQueue, delayedQueue)
    /\ UNCHANGED <<kind, isRunning, isAcceptingMessages, thread, messageMutex, now,
                   timeNow, until, sending, executing, msgs, promise, setCount,
                   loopThreads, startCalled, stopInvoked, stopReturned, queuedAtStop,
                   handle>>

\* std::condition_variable: a waiting thread may wake without a notification
SpuriousWake(t) ==
    /\ t \in waiting
    /\ waiting' = waiting \ {t}
    /\ UNCHANGED <<kind, isRunning, isAcceptingMessages, thread, messageQueue,
                   delayedQueue, messageMutex, now, pc, timeNow, next, until, sending,
                   executing, msgs, promise, setCount, loopThreads, startCalled,
                   stopInvoked, stopReturned, queuedAtStop, handle>>

\* runLoop, lines 238-242: next->call(), outside the lock
LoopCall(t) ==
    /\ pc[t] = "L_call"
    /\ BeginCall(t, next[t], "L_check")
    /\ next' = [next EXCEPT ![t] = 0]
    /\ UNCHANGED <<kind, isRunning, isAcceptingMessages, thread, messageQueue,
                   delayedQueue, messageMutex, waiting, now, timeNow, until, sending,
                   promise, setCount, loopThreads, startCalled, stopInvoked,
                   stopReturned, queuedAtStop, handle>>

\* ------------------------------------------------------- runLeftovers
\* a runLeftovers that first moves every delayed message to messageQueue
LeftoversPromote(t) ==
    /\ pc[t] = "L_left"
    /\ messageMutex = NoThread
    /\ messageMutex' = t
    /\ messageQueue' = messageQueue \o [i \in 1..Len(delayedQueue) |-> delayedQueue[i].msg]
    /\ delayedQueue' = <<>>
    /\ pc' = [pc EXCEPT ![t] = "L_drain"]
    /\ UNCHANGED <<kind, isRunning, isAcceptingMessages, thread, 
                   waiting, now, timeNow, next, until, sending,
                   executing, msgs, promise, setCount, loopThreads, startCalled,
                   stopInvoked, stopReturned, queuedAtStop, handle>>

\* runLeftovers, line 250: lock_guard, held until runLeftovers returns
LeftoversLock(t) ==
    /\ pc[t] = "L_left"
    /\ messageMutex = NoThread
    /\ messageMutex' = t
    /\ pc' = [pc EXCEPT ![t] = "L_drain"]
    /\ UNCHANGED <<kind, isRunning, isAcceptingMessages, thread, messageQueue,
                   delayedQueue, waiting, now, timeNow, next, until, sending,
                   executing, msgs, promise, setCount, loopThreads, startCalled,
                   stopInvoked, stopReturned, queuedAtStop, handle>>

\* a runLeftovers that returns without running the messages left
LeftoversSkip(t) ==
    /\ pc[t] = "L_drain"
    /\ messageMutex' = NoThread
    /\ pc' = [pc EXCEPT ![t] = IF t \in Spawned THEN "done" ELSE "idle"]
    /\ UNCHANGED <<kind, isRunning, isAcceptingMessages, thread, messageQueue,
                   delayedQueue, waiting, now, timeNow, next, until, sending,
                   executing, msgs, promise, setCount, loopThreads, startCalled,
                   stopInvoked, stopReturned, queuedAtStop, handle>>

\* runLeftovers, lines 251-253: while (messageQueue.size()) front()->call();
\* with the queue empty runLeftovers and runLoop return: a spawned thread ends,
\* a ThisThread caller returns from start()
LeftoversCall(t) ==
    /\ pc[t] = "L_drain"
    /\ IF messageQueue # <<>>
       THEN /\ BeginCall(t, Head(messageQueue), "L_drainpop")
            /\ UNCHANGED messageMutex
       ELSE /\ messageMutex' = NoThread
            /\ pc' = [pc EXCEPT ![t] = IF t \in Spawned THEN "done" ELSE "idle"]
            /\ UNCHANGED <<executing, msgs>>
    /\ UNCHANGED <<kind, isRunning, isAcceptingMessages, thread, messageQueue,
                   delayedQueue, waiting, now, timeNow, next, until, sending,
                   promise, setCount, loopThreads, startCalled, stopInvoked,
                   stopReturned, queuedAtStop, handle>>

\* a runLeftovers that does not pop the message it has called
LeftoversNoPop(t) ==
    /\ pc[t] = "L_drainpop"
    /\ pc' = [pc EXCEPT ![t] = "L_drain"]
    /\ UNCHANGED <<kind, isRunning, isAcceptingMessages, thread, messageQueue,
                   delayedQueue, messageMutex,
                   waiting, now, timeNow, next, until, sending,
                   executing, msgs, promise, setCount, loopThreads, startCalled,
                   stopInvoked, stopReturned, queuedAtStop, handle>>

\* runLeftovers, line 254: messageQueue.pop()
LeftoversPop(t) ==
    /\ pc[t] = "L_drainpop"
    /\ messageQueue' = Tail(messageQueue)
    /\ pc' = [pc EXCEPT ![t] = "L_drain"]
    /\ UNCHANGED <<kind, isRunning, isAcceptingMessages, thread, delayedQueue,
                   messageMutex, waiting, now, timeNow, next, until, sending,
                   executing, msgs, promise, setCount, loopThreads, startCalled,
                   stopInvoked, stopReturned, queuedAtStop, handle>>

\* ------------------------------------------------- join and ~Thread
\* join, line 79: thread && thread->joinable(), the loop thread exists and has
\* not ended
Joinable == IF thread = NoThread THEN FALSE ELSE pc[thread] # "done"

\* join, lines 79-81: the caller waits in thread->join() for the loop thread
JoinCall(t) ==
    /\ pc[t] = "idle"
    /\ pc' = [pc EXCEPT ![t] = "joining"]
    /\ UNCHANGED <<kind, isRunning, isAcceptingMessages, thread, messageQueue,
                   delayedQueue, messageMutex, waiting, now, timeNow, next, until,
                   sending, executing, msgs, promise, setCount, loopThreads,
                   startCalled, stopInvoked, stopReturned, queuedAtStop, handle>>

\* join, lines 79-82: no thread to join, or thread->join() returns when the
\* loop thread has ended
JoinReturn(t) ==
    /\ pc[t] = "joining"
    /\ ~Joinable
    /\ pc' = [pc EXCEPT ![t] = "idle"]
    /\ UNCHANGED <<kind, isRunning, isAcceptingMessages, thread, messageQueue,
                   delayedQueue, messageMutex, waiting, now, timeNow, next, until,
                   sending, executing, msgs, promise, setCount, loopThreads,
                   startCalled, stopInvoked, stopReturned, queuedAtStop, handle>>

\* ~Thread, line 40: setIsAcceptingMessages(false); the unit is destroyed by the
\* thread that owns it while no other thread is inside a call on it
Destroy(t) ==
    /\ pc[t] = "idle"
    /\ \A c \in Clients : pc[c] = "idle"
    /\ isAcceptingMessages' = FALSE
    /\ pc' = [pc EXCEPT ![t] = "dtor_run"]
    /\ UNCHANGED <<kind, isRunning, thread, messageQueue, delayedQueue,
                   messageMutex, waiting, now, timeNow, next, until, sending,
                   executing, msgs, promise, setCount, loopThreads, startCalled,
                   stopInvoked, stopReturned, queuedAtStop, handle>>

\* ~Thread, line 41: setIsRunning(false)
DestroyRunning(t) ==
    /\ pc[t] = "dtor_run"
    /\ isRunning' = FALSE
    /\ queuedAtStop' = IF isRunning THEN Len(messageQueue) ELSE queuedAtStop
    /\ pc' = [pc EXCEPT ![t] = "dtor_notify"]
    /\ UNCHANGED <<kind, isAcceptingMessages, thread, messageQueue, delayedQueue,
                   messageMutex, waiting, now, timeNow, next, until, sending,
                   executing, msgs, promise, setCount, loopThreads, startCalled,
                   stopInvoked, stopReturned, handle>>

\* ~Thread, line 42: queueWait.notify_one()
DestroyNotify(t) ==
    /\ pc[t] = "dtor_notify"
    /\ waiting' \in NotifyOne(waiting)
    /\ pc' = [pc EXCEPT ![t] = "dtor_join"]
    /\ UNCHANGED <<kind, isRunning, isAcceptingMessages, thread, messageQueue,
                   delayedQueue, messageMutex, now, timeNow, next, until, sending,
                   executing, msgs, promise, setCount, loopThreads, startCalled,
                   stopInvoked, stopReturned, queuedAtStop, handle>>

\* ~Thread, line 43: join() (lines 79-82), then the members are destroyed with
\* whatever the queues hold; no client uses the unit afterwards
DestroyJoin(t) ==
    /\ pc[t] = "dtor_join"
    /\ ~Joinable
    /\ pc' = [x \in Threads |-> IF x \in Clients THEN "destroyed" ELSE pc[x]]
    /\ UNCHANGED <<kind, isRunning, isAcceptingMessages, thread, messageQueue,
                   delayedQueue, messageMutex, waiting, now, timeNow, next, until,
                   sending, executing, msgs, promise, setCount, loopThreads,
                   startCalled, stopInvoked, stopReturned, queuedAtStop, handle>>

\* -------------------------------------------------------------- clock
\* std::chrono::steady_clock advances
Tick ==
    /\ now < MaxTime
    /\ now' = now + 1
    /\ UNCHANGED <<kind, isRunning, isAcceptingMessages, thread, messageQueue,
                   delayedQueue, messageMutex, waiting, pc, timeNow, next, until,
                   sending, executing, msgs, promise, setCount, loopThreads,
                   startCalled, stopInvoked, stopReturned, queuedAtStop, handle>>

\* ------------------------------------------------------ specifications
\* steps of send / sendAsync / sendSync, of the callables, of the lifecycle
\* calls once made, and of the loop
Work ==
    \/ \E t \in Producers : Send(t) \/ SendEnqueue(t)
    \/ \E t \in Threads : SendAsync(t) \/ SendSync(t) \/ SendSyncAccepting(t)
    \/ \E t \in Threads : SendAsyncInPlace(t) \/ SendAsyncEnqueue(t)
    \/ \E t \in Threads : SendAsyncReturn(t) \/ FutureGet(t) \/ EndCall(t)
    \/ \E t \in Clients : StartSetRunning(t) \/ StartThread(t) \/ StartAssign(t)
    \/ StopCheck(Owner)
    \/ \E t \in Clients : StopRunning(t) \/ StopNotify(t)
    \/ \E t \in Clients : StopThisThread(t) \/ StopThisThreadRunning(t)
    \/ \E t \in Threads : LoopCheck(t) \/ LoopLock(t) \/ LoopWake(t)
    \/ \E t \in Threads : SpuriousWake(t) \/ LoopCall(t)
    \/ \E t \in Threads : LeftoversLock(t) \/ LeftoversCall(t) \/ LeftoversPop(t)

\* steps of sendDelayed and of the loop's timed wait
Delayed ==
    \/ \E t \in Producers : SendDelayed(t)
    \/ \E t \in Producers, d \in Timeouts : SendDelayedEnqueue(t, d)
    \/ \E t \in Threads : LoopTimedWake(t)

\* the owner of the unit starts it, once
StartOnce ==
    /\ ~startCalled
    /\ StartCheck(Owner) \/ StartThisThread(Owner)

\* any client calls start(), at any time
StartAny == \E t \in Clients : StartCheck(t) \/ StartThisThread(t)

\* the unit with all its operations, started once by its owner
Next == Work \/ Delayed \/ Tick \/ StartOnce

Spec == Init /\ [][Next]_vars

\* the same within one tick of the clock: no delayed message becomes due
NextNoTick == Work \/ Delayed \/ StartOnce

SpecNoTick == Init /\ [][NextNoTick]_vars

\* the unit with start() called by any client at any time
NextAnyStart == Work \/ StartAny

SpecAnyStart == Init /\ [][NextAnyStart]_vars

\* join() and the destructor, called by the owner of the unit
Lifetime ==
    \/ JoinCall(Owner) \/ JoinReturn(Owner)
    \/ Destroy(Owner) \/ DestroyRunning(Owner)
    \/ DestroyNotify(Owner) \/ DestroyJoin(Owner)

\* a thread that is inside a call, or runs the loop, and is not blocked takes
\* its next step; beginning a call, the clock and a wake-up without
\* notification are not steps the scheduler owes
Progress(t) ==
    \/ SendEnqueue(t) \/ SendSyncAccepting(t)
    \/ SendAsyncInPlace(t) \/ SendAsyncEnqueue(t)
    \/ SendAsyncReturn(t) \/ FutureGet(t) \/ EndCall(t)
    \/ StartSetRunning(t) \/ StartThread(t) \/ StartAssign(t)
    \/ StopRunning(t) \/ StopNotify(t) \/ StopThisThreadRunning(t)
    \/ LoopCheck(t) \/ LoopLock(t) \/ LoopWake(t) \/ LoopCall(t)
    \/ LeftoversLock(t) \/ LeftoversCall(t) \/ LeftoversPop(t)
    \/ JoinReturn(t) \/ DestroyRunning(t) \/ DestroyNotify(t) \/ DestroyJoin(t)

\* the unit from construction to destruction, under a fair scheduler
NextLife == Work \/ StartOnce \/ Lifetime

SpecLife == Init /\ [][NextLife]_vars /\ \A t \in Threads : WF_vars(Progress(t))

\* ============================================================== claims
\* thread t is inside runLoop / runLeftovers
InRunLoop(t) ==
    \/ pc[t] \in {"L_check", "L_lock", "L_wait", "L_twait", "L_call", "L_left",
                  "L_drain", "L_drainpop"}
    \/ InLoop(t)

\* thread t ran the loop and the drain to their end
LoopFinished(t) == t \in loopThreads /\ ~InRunLoop(t) /\ pc[t] # "aborted"

\* C1 (FIFO): when a message passed to send() begins to execute, every message
\* whose send() had returned before this send() was called has been executed
\* to its end, in the run loop and in the shutdown drain alike.
C1_FIFO == \A b \in Ids : msgs[b].fifo

\* C1 witness: a message is executed by the shutdown drain after an earlier
\* send()'s message ran to its end.
C1_Witness ==
    \E t \in Threads, b \in Ids :
        /\ executing[t] # <<>>
        /\ executing[t][1] = [msg |-> b, ret |-> "L_drainpop"]
        /\ Pred(b) # {}
        /\ \A a \in Pred(b) : msgs[a].done

\* C2 (serialized execution): at most one thread is executing a message, and a
\* thread executing a message is a thread running the unit's loop.
C2_Serialized ==
    /\ Cardinality({t \in Threads : executing[t] # <<>>}) <= 1
    /\ \A t \in Threads : executing[t] # <<>> => t \in loopThreads

\* C3 (no accepted message lost): once the loop and the drain have finished,
\* every send() or sendAsync() that was called on the started unit, passed the
\* accepting check and returned normally has had its message executed exactly
\* once.
C3_NoLoss ==
    \A t \in Threads :
        LoopFinished(t) =>
            \A m \in Ids :
                (msgs[m].op \in {"send", "sendAsync"} /\ msgs[m].started /\
                 msgs[m].res = "ok")
                    => (msgs[m].execs = 1 /\ msgs[m].done)

\* C4 (drain on stop): when the worker thread of a Thread has ended, every
\* message whose send() returned before stop() was called has been executed.
C4_DrainOnStop ==
    (kind = "Thread" /\ pc["w1"] = "done") =>
        \A m \in Ids : msgs[m].preStop => msgs[m].done

\* C4 witness: the worker thread has ended after a stop() that found two
\* messages in the immediate queue, both sent before stop() and both executed.
C4_Witness ==
    /\ kind = "Thread"
    /\ pc["w1"] = "done"
    /\ queuedAtStop >= 2
    /\ Cardinality({m \in Ids : msgs[m].preStop /\ msgs[m].done}) >= 2

\* message m sits in one of the two queues
Queued(m) ==
    \/ m \in Range(messageQueue)
    \/ \E i \in 1..Len(delayedQueue) : delayedQueue[i].msg = m

C6_SyncRoundTrip ==
    \A m \in Ids :
        (msgs[m].op = "sendSync" /\ ~msgs[m].nested /\ msgs[m].foreign /\
         msgs[m].started) =>
            /\ msgs[m].execs > 0 =>
                  (msgs[m].on \in loopThreads /\ msgs[m].on # msgs[m].by)
            /\ msgs[m].res = "ok" => (msgs[m].done /\ msgs[m].got = Val(m))

\* C7 (same-thread non-blocking): a sendAsync / sendSync called by a callable
\* that the loop is executing is never enqueued; it runs on the calling thread;
\* when the call returns the callable has completed and the promise holds its
\* value; and the loop thread never waits on a future that is not fulfilled.
C7_SameThread ==
    /\ \A m \in Ids :
          (msgs[m].nested /\ msgs[m].inLoop) =>
              /\ ~Queued(m)
              /\ msgs[m].execs > 0 => msgs[m].on = msgs[m].by
              /\ msgs[m].res = "ok" => (msgs[m].done /\ promise[m] = Val(m))
    /\ \A t \in Threads :
          (InLoop(t) /\ pc[t] = "async_ret") => promise[Cur(t)] # 0

\* C7 witness: a sendAsync called by a callable that the loop is executing has
\* returned, its callable run in place, while the calling callable still runs.
C7_Witness ==
    \E t \in Threads, m \in Ids :
        /\ InLoop(t) /\ pc[t] = "body"
        /\ msgs[m].nested /\ msgs[m].inLoop /\ msgs[m].by = t
        /\ msgs[m].op = "sendAsync" /\ msgs[m].res = "ok"
        /\ msgs[m].on = t /\ msgs[m].done /\ isAcceptingMessages

\* message m has been moved to the immediate queue: it is in it, or has been
\* taken from it
Promoted(m) ==
    \/ m \in Range(messageQueue)
    \/ \E t \in Threads : next[t] = m
    \/ msgs[m].execs > 0

\* message m is held in the delayed queue
Held(m) == \E i \in 1..Len(delayedQueue) : delayedQueue[i].msg = m

\* an accepted sendDelayed call
Delay(m) == msgs[m].op = "sendDelayed" /\ msgs[m].res = "ok"

\* loop thread t is in an iteration of the loop, past the promotion of the
\* delayed messages
PastPromotion(t) ==
    \/ pc[t] \in {"L_twait", "L_call"}
    \/ executing[t] # <<>> /\ executing[t][1].ret = "L_check"

\* C8 (delay floor): a message passed to sendDelayed is not in the immediate
\* queue, and not executed, before its deadline; and an iteration of the loop
\* that began after the deadline has moved it to the immediate queue.
C8_DelayFloor ==
    /\ \A m \in Ids : (Delay(m) /\ Promoted(m)) => now >= msgs[m].time
    /\ \A t \in Threads, m \in Ids :
          (PastPromotion(t) /\ Delay(m) /\ msgs[m].time < timeNow[t]) => Promoted(m)

\* C9 (deadline tie-break): two accepted sendDelayed calls with equal deadlines
\* both have their message held in the delayed queue or moved on from it, and
\* the second is not executed before the first has been.
C9_TieBreak ==
    \A a, b \in Ids :
        (a < b /\ Delay(a) /\ Delay(b) /\ msgs[a].time = msgs[b].time) =>
            /\ Held(a) \/ Promoted(a)
            /\ Held(b) \/ Promoted(b)
            /\ msgs[b].execs > 0 => msgs[a].done

\* C10 (double start): while stop() has not been called, at most one thread
\* has been created to run the loop of a Thread.
C10_SingleLoop ==
    (kind = "Thread" /\ ~stopInvoked) =>
        Cardinality({w \in Spawned : pc[w] # "unborn"}) <= 1

\* C13 (NotStarted errors): while start() has not been called on a Thread,
\* stop() throws at its check and goes no further, every sendSync has failed
\* with NotStarted, its message neither queued nor executed, and the flags are
\* as constructed: not running, accepting messages.
C13_NotStarted ==
    (kind = "Thread" /\ ~startCalled) =>
        /\ pc[Owner] \notin {"stop_run", "stop_notify"}
        /\ ~stopReturned
        /\ isAcceptingMessages
        /\ ~isRunning
        /\ thread = NoThread
        /\ \A m \in Ids :
              msgs[m].op = "sendSync" =>
                  (msgs[m].res = "NotStarted" /\ ~Queued(m) /\ msgs[m].execs = 0)

\* C13 witness: on a Thread never started, stop() has been called, a sendSync
\* has failed with NotStarted, and a send() made after both was accepted.
C13_Witness ==
    /\ kind = "Thread"
    /\ ~startCalled
    /\ stopInvoked
    /\ pc[Owner] = "idle"
    /\ \E m, n \in Ids :
          /\ m < n
          /\ msgs[m].op = "sendSync" /\ msgs[m].res = "NotStarted"
          /\ msgs[n].op = "send" /\ msgs[n].res = "ok" /\ ~msgs[n].preStop
          /\ messageQueue = <<n>>

\* C14 (pre-start identity): while start() has not been called on a Thread, a
\* sendAsync made by a thread other than the one that constructed the unit is
\* not executed on the calling thread.
C14_PreStartIdentity ==
    (kind = "Thread" /\ ~startCalled) =>
        \A m \in Ids :
            (msgs[m].op = "sendAsync" /\ ~msgs[m].nested /\ msgs[m].by # Owner) =>
                msgs[m].on # msgs[m].by

\* C15 (lock discipline): a thread executing a message from the run loop or
\* from the shutdown drain does not hold messageMutex.
C15_LockDiscipline ==
    \A t \in Threads : InLoop(t) => messageMutex # t

\* C16 (one-way lifecycle): a start() called on a Thread after a stop() has
\* returned fails its check: it does not go on to set the unit running and to
\* create a thread.
C16_OneWay ==
    [][\A t \in Clients :
          (kind = "Thread" /\ stopReturned /\ pc[t] = "idle") => pc'[t] # "start_set"]_vars

\* C18 (at-most-once execution): no message has been executed more than once,
\* and no promise has been set more than once.
C18_AtMostOnce == \A m \in Ids : msgs[m].execs <= 1 /\ setCount[m] <= 1

\* C18 witness: after stop(), with the loop and the drain finished, a delayed
\* message that was promoted has been executed once and a message with a
\* promise has been executed once, its promise set once.
C18_Witness ==
    /\ stopReturned
    /\ \E t \in Threads : LoopFinished(t)
    /\ \E m, n \in Ids :
          /\ Delay(m) /\ msgs[m].execs = 1 /\ msgs[m].done
          /\ HasPromise(n) /\ msgs[n].execs = 1 /\ setCount[n] = 1

\* thread t ran the loop and has left its while loop
LoopExited(t) ==
    \/ pc[t] \in {"L_left", "L_drain", "L_drainpop"}
    \/ executing[t] # <<>> /\ executing[t][1].ret = "L_drainpop"
    \/ LoopFinished(t)

\* C19 (delayed messages at shutdown): once the loop has exited, a message held
\* in the delayed queue stays there and is not executed.
C19_DelayedDropped ==
    [][\A t \in Threads, m \in Ids :
          (LoopExited(t) /\ Held(m)) => (Held(m)' /\ msgs'[m].execs = 0)]_vars

\* C19 witness: the loop and the drain have finished after stop() while the
\* delayed queue holds a message that is due and was never executed.
C19_Witness ==
    /\ stopReturned
    /\ \E t \in Threads, m \in Ids :
          /\ LoopFinished(t)
          /\ Held(m) /\ msgs[m].time < now /\ msgs[m].execs = 0

\* C20 (no sleeping on ready work): the loop thread enters a wait, untimed or
\* timed, only when the immediate queue is empty.
C20_NoSleepOnReady ==
    [][\A t \in Threads :
          (pc[t] \notin {"L_wait", "L_twait"} /\ pc'[t] \in {"L_wait", "L_twait"})
              => messageQueue = <<>>]_vars

\* C11 (stop wakes the loop): once stop() has returned on a started Thread, or
\* its destructor has reached join(), the loop thread eventually ends.
C11_StopWakes ==
    (kind = "Thread" /\ thread # NoThread /\ (stopReturned \/ pc[Owner] = "dtor_join"))
        ~> ~Joinable

\* C12 (destruction leaks no messages): when the destructor of a Thread has
\* returned, no thread created for the unit is still running and every message
\* that entered the immediate queue has been executed.
C12_NoLeak ==
    (kind = "Thread" /\ pc[Owner] = "destroyed") =>
        /\ \A w \in Spawned : pc[w] \in {"unborn", "done"}
        /\ \A m \in Ids : Promoted(m) => msgs[m].done

\* C17 (ThisThread stop): when stop() has returned while a thread is inside
\* ThisThread::start() running the loop, that thread eventually leaves the loop
\* and start() returns.
C17_ThisThreadStop ==
    (kind = "ThisThread" /\ InRunLoop(Owner) /\ stopReturned) ~> ~InRunLoop(Owner)

====
